---- MODULE Spec2Model ----
(***************************************************************************)
(* The download job orchestrator of src/main.py: DatabaseManager (the job  *)
(* store), YTDLPManager (admission, one worker thread per admitted job,    *)
(* pause / resume / cancel / retry) and parse_progress (the decoder of one *)
(* line of yt-dlp output).                                                 *)
(*                                                                         *)
(* Text is a sequence of one-character strings.  A float is held in tenths *)
(* (45.2 is 452); the output lines of the model carry at most one digit    *)
(* after the decimal point.  SQL NULL / Python None is the value NULL for  *)
(* a string column and NULLTEXT for a column holding parsed text.          *)
(*                                                                         *)
(* The callers are those of the YTDLPManager methods: pause, resume,       *)
(* cancel and retry may be called for any id at any time (each method's    *)
(* own test is its only guard); start is called for a job that was added   *)
(* and has no worker yet.  A subprocess writes a line and the worker reads *)
(* it in one step; SIGTERM ends a running process at once.  created_at is  *)
(* the order of creation.  max_concurrent is read once, at construction.   *)
(***************************************************************************)
EXTENDS Integers, Sequences, FiniteSets, TLC

\* ------------------------------------------------------------------ bounds
MaxJobs == 2
MaxWorkers == 2
MaxLimit == 1

\* ------------------------------------------------------------ text helpers
NULL == "NULL"
NULLTEXT == <<"NULL">>

Digits == {"0", "1", "2", "3", "4", "5", "6", "7", "8", "9"}
Whitespace == {" ", "\t", "\n", "\r"}

DigitVal(c) ==
    CASE c = "0" -> 0 [] c = "1" -> 1 [] c = "2" -> 2 [] c = "3" -> 3
      [] c = "4" -> 4 [] c = "5" -> 5 [] c = "6" -> 6 [] c = "7" -> 7
      [] c = "8" -> 8 [] c = "9" -> 9

\* The index just past the longest run of characters of S that starts at i
\* (a greedy character class: [0-9]*, \s*, [0-9.]*, [0-9:]*).
RECURSIVE RunEnd(_, _, _)
RunEnd(s, i, S) ==
    IF i <= Len(s) /\ s[i] \in S THEN RunEnd(s, i + 1, S) ELSE i

\* The literal lit occurs in s at index i.
LitAt(s, i, lit) ==
    /\ i >= 1
    /\ i + Len(lit) - 1 <= Len(s)
    /\ \A k \in 1..Len(lit) : s[i + k - 1] = lit[k]

\* Python's `lit in s`.
Contains(s, lit) == \E i \in 1..(Len(s) + 1) : LitAt(s, i, lit)

Least(S) == CHOOSE x \in S : \A y \in S : x <= y

\* str.strip(): leading and trailing whitespace removed.
RECURSIVE LStrip(_)
LStrip(s) ==
    IF s # <<>> /\ Head(s) \in Whitespace THEN LStrip(Tail(s)) ELSE s

RECURSIVE RStrip(_)
RStrip(s) ==
    IF s # <<>> /\ s[Len(s)] \in Whitespace
    THEN RStrip(SubSeq(s, 1, Len(s) - 1))
    ELSE s

strip(s) == RStrip(LStrip(s))

\* ---------------------------------------------------------- parse_progress
\* re.search(r'(\d+\.?\d*)%', output): a match that starts at i ends at the
\* '%' this returns (0: no match at i).  \d+ and \d* are greedy and what
\* follows each cannot be a digit, so no shorter run matches where the
\* longest fails.
PercentEnd(s, i) ==
    LET a == RunEnd(s, i, Digits)
        b == IF a <= Len(s) /\ s[a] = "." THEN a + 1 ELSE a
        c == RunEnd(s, b, Digits)
    IN  IF a > i /\ c <= Len(s) /\ s[c] = "%" THEN c ELSE 0

PercentStarts(s) == {i \in 1..Len(s) : PercentEnd(s, i) # 0}

\* percent_match.group(1) of the leftmost match, <<>> when there is none.
percent_match(s) ==
    IF PercentStarts(s) = {} THEN <<>>
    ELSE LET i == Least(PercentStarts(s))
         IN  SubSeq(s, i, PercentEnd(s, i) - 1)

\* The natural number a string of digits writes.
RECURSIVE DigitsValue(_)
DigitsValue(ds) ==
    IF ds = <<>> THEN 0
    ELSE 10 * DigitsValue(SubSeq(ds, 1, Len(ds) - 1)) + DigitVal(ds[Len(ds)])

\* float gone wrong: int(), the digits after the point are dropped.
float_whole(g) == 10 * DigitsValue(SubSeq(g, 1, RunEnd(g, 1, Digits) - 1))

\* float(group), in tenths: the integer part and the first digit after the
\* point.
float(g) ==
    LET a == RunEnd(g, 1, Digits)
        int == DigitsValue(SubSeq(g, 1, a - 1))
        frac == IF a + 1 <= Len(g) THEN DigitVal(g[a + 1]) ELSE 0
    IN  10 * int + frac

\* re.search(r'at\s+([0-9.]+[KMG]?iB/s)', output): the span <<from, to>> of
\* group(1) for a match that starts at i, <<0, 0>> when none starts there.
SpeedSpan(s, i) ==
    LET w == RunEnd(s, i + 2, Whitespace)
        n == RunEnd(s, w, Digits \cup {"."})
        u == IF n <= Len(s) /\ s[n] \in {"K", "M", "G"} THEN n + 1 ELSE n
    IN  IF /\ LitAt(s, i, <<"a", "t">>)
           /\ w > i + 2
           /\ n > w
           /\ LitAt(s, u, <<"i", "B", "/", "s">>)
        THEN <<w, u + 3>>
        ELSE <<0, 0>>

SpeedStarts(s) == {i \in 1..Len(s) : SpeedSpan(s, i) # <<0, 0>>}

speed_match(s) ==
    IF SpeedStarts(s) = {} THEN <<>>
    ELSE LET sp == SpeedSpan(s, Least(SpeedStarts(s)))
         IN  SubSeq(s, sp[1], sp[2])

\* re.search(r'ETA\s+([0-9:]+)', output).
EtaSpan(s, i) ==
    LET w == RunEnd(s, i + 3, Whitespace)
        n == RunEnd(s, w, Digits \cup {":"})
    IN  IF LitAt(s, i, <<"E", "T", "A">>) /\ w > i + 3 /\ n > w
        THEN <<w, n - 1>>
        ELSE <<0, 0>>

EtaStarts(s) == {i \in 1..Len(s) : EtaSpan(s, i) # <<0, 0>>}

eta_match(s) ==
    IF EtaStarts(s) = {} THEN <<>>
    ELSE LET sp == EtaSpan(s, Least(EtaStarts(s)))
         IN  SubSeq(s, sp[1], sp[2])

\* The keyword arguments parse_progress hands to update_download for one
\* stripped line; the empty record when the line is no progress report.
NoUpdate == [x \in {} |-> NULL]

\* progress_kwargs gone wrong: the line is not tested for '[download]'.
progress_kwargs_any_marker(output) ==
    IF percent_match(output) # <<>>
    THEN [progress |-> float(percent_match(output)),
          speed |-> speed_match(output),
          eta |-> eta_match(output)]
    ELSE NoUpdate

progress_kwargs(output) ==
    IF Contains(output, <<"[", "d", "o", "w", "n", "l", "o", "a", "d", "]">>)
       /\ percent_match(output) # <<>>
    THEN [progress |-> float(percent_match(output)),
          speed |-> speed_match(output),
          eta |-> eta_match(output)]
    ELSE NoUpdate

\* ------------------------------------------------------------------- state
VARIABLES
    db,                \* the downloads table: id -> row
    lastrowid,         \* the AUTOINCREMENT counter of the downloads table
    max_concurrent,    \* YTDLPManager.max_concurrent
    active_downloads,  \* YTDLPManager.active_downloads: id -> worker whose Popen it holds
    download_threads,  \* YTDLPManager.download_threads: id -> worker thread
    workers,           \* the download_worker threads created so far, in order
    success            \* what start_download returned in the step just taken

vars == <<db, lastrowid, max_concurrent, active_downloads, download_threads, workers, success>>

\* The store and the manager, without the value returned to the caller.
manager == <<db, lastrowid, max_concurrent, active_downloads, download_threads, workers>>

JobIds == 1..MaxJobs

\* The yt-dlp output the model's subprocesses can write, as readline returns
\* it: a progress report, an earlier (lower) progress report, and a line that
\* is no progress report.
Line452 ==
    <<"[", "d", "o", "w", "n", "l", "o", "a", "d", "]", " ", " ", "4", "5",
      ".", "2", "%", " ", "o", "f", " ", "1", "0", ".", "0", "0", "M", "i",
      "B", " ", "a", "t", " ", "1", ".", "2", "1", "M", "i", "B", "/", "s",
      " ", "E", "T", "A", " ", "0", "0", ":", "1", "2", "\n">>
Line50 ==
    <<"[", "d", "o", "w", "n", "l", "o", "a", "d", "]", " ", " ", " ", "5",
      ".", "0", "%", " ", "o", "f", " ", "1", "0", ".", "0", "0", "M", "i",
      "B", " ", "a", "t", " ", "2", ".", "5", "K", "i", "B", "/", "s", " ",
      "E", "T", "A", " ", "0", "1", ":", "3", "0", "\n">>
LineWarning ==
    <<"W", "A", "R", "N", "I", "N", "G", ":", " ", "s", "o", "m", "e", " ",
      "u", "n", "r", "e", "l", "a", "t", "e", "d", " ", "m", "e", "s", "s",
      "a", "g", "e", "\n">>
OutputLines == {Line452, Line50, LineWarning}

\* A progress report against an estimated total size ("of ~"), which the
\* bytes downloaded can exceed.
Line1004 ==
    <<"[", "d", "o", "w", "n", "l", "o", "a", "d", "]", " ", "1", "0", "0",
      ".", "4", "%", " ", "o", "f", " ", "~", "1", "0", ".", "0", "0", "M",
      "i", "B", " ", "a", "t", " ", "1", ".", "2", "1", "M", "i", "B", "/",
      "s", " ", "E", "T", "A", " ", "0", "0", ":", "0", "0", "\n">>

\* Other lines yt-dlp and its post-processors write: no percentage, no
\* '[download]', two percentages, a speed in B/s, a speed without 'at', no
\* speed and no ETA, a speed in GiB/s with an ETA in hours, an error.
\* [download] Destination: /dl/A.mp4
LineDestination ==
    <<"[", "d", "o", "w", "n", "l", "o", "a", "d", "]", " ", "D", "e",
      "s", "t", "i", "n", "a", "t", "i", "o", "n", ":", " ", "/", "d",
      "l", "/", "A", ".", "m", "p", "4", "\n">>

\* [Merger] 45.2% at 1.21MiB/s ETA 00:12
LineNoMarker ==
    <<"[", "M", "e", "r", "g", "e", "r", "]", " ", "4", "5", ".", "2",
      "%", " ", "a", "t", " ", "1", ".", "2", "1", "M", "i", "B", "/",
      "s", " ", "E", "T", "A", " ", "0", "0", ":", "1", "2", "\n">>

\* [download]   7.5% of 10.00MiB (100% of part 1)
LineTwoPercents ==
    <<"[", "d", "o", "w", "n", "l", "o", "a", "d", "]", " ", " ", " ",
      "7", ".", "5", "%", " ", "o", "f", " ", "1", "0", ".", "0", "0",
      "M", "i", "B", " ", "(", "1", "0", "0", "%", " ", "o", "f", " ",
      "p", "a", "r", "t", " ", "1", ")", "\n">>

\* [download]   5.0% of 10.00MiB at 512.00B/s ETA 01:30
LineBytes ==
    <<"[", "d", "o", "w", "n", "l", "o", "a", "d", "]", " ", " ", " ",
      "5", ".", "0", "%", " ", "o", "f", " ", "1", "0", ".", "0", "0",
      "M", "i", "B", " ", "a", "t", " ", "5", "1", "2", ".", "0", "0",
      "B", "/", "s", " ", "E", "T", "A", " ", "0", "1", ":", "3", "0",
      "\n">>

\* [download]  45.2% of 10.00MiB 1.21MiB/s ETA 00:12
LineNoAt ==
    <<"[", "d", "o", "w", "n", "l", "o", "a", "d", "]", " ", " ", "4",
      "5", ".", "2", "%", " ", "o", "f", " ", "1", "0", ".", "0", "0",
      "M", "i", "B", " ", "1", ".", "2", "1", "M", "i", "B", "/", "s",
      " ", "E", "T", "A", " ", "0", "0", ":", "1", "2", "\n">>

\* [download] 100% of 10.00MiB in 00:05
LineFinished ==
    <<"[", "d", "o", "w", "n", "l", "o", "a", "d", "]", " ", "1", "0",
      "0", "%", " ", "o", "f", " ", "1", "0", ".", "0", "0", "M", "i",
      "B", " ", "i", "n", " ", "0", "0", ":", "0", "5", "\n">>

\* [download]  99.9% of 10.00GiB at  1.5GiB/s ETA 1:02:03
LineGiB ==
    <<"[", "d", "o", "w", "n", "l", "o", "a", "d", "]", " ", " ", "9",
      "9", ".", "9", "%", " ", "o", "f", " ", "1", "0", ".", "0", "0",
      "G", "i", "B", " ", "a", "t", " ", " ", "1", ".", "5", "G", "i",
      "B", "/", "s", " ", "E", "T", "A", " ", "1", ":", "0", "2", ":",
      "0", "3", "\n">>

\* ERROR: unable to download video data
LinePlain ==
    <<"E", "R", "R", "O", "R", ":", " ", "u", "n", "a", "b", "l", "e",
      " ", "t", "o", " ", "d", "o", "w", "n", "l", "o", "a", "d", " ",
      "v", "i", "d", "e", "o", " ", "d", "a", "t", "a", "\n">>

ParseLines ==
    OutputLines \cup {Line1004, LineDestination, LineNoMarker, LineTwoPercents,
                      LineBytes, LineNoAt, LineFinished, LineGiB, LinePlain}

\* What each line leads parse_progress to write, computed once.
LineKwargs == [l \in ParseLines |-> progress_kwargs(strip(l))]

\* ------------------------------------------------------------ DownloadItem
\* DownloadItem(...) as SnapTubeApp.start_download builds it: the descriptor
\* given, status "pending", every other field at its dataclass default.
DownloadItem(url, format_id, quality, file_type, file_path, created_at) ==
    [url |-> url, format_id |-> format_id, quality |-> quality,
     file_type |-> file_type, file_path |-> file_path, file_size |-> 0,
     progress |-> 0, status |-> "pending", created_at |-> created_at]

\* The descriptors a caller submits.
Items ==
    {[url |-> "https://a.example/v1", format_id |-> "22", quality |-> "720p",
      file_type |-> "mp4", file_path |-> "/dl/A.%(ext)s"],
     [url |-> "https://b.example/v2", format_id |-> "140-m4a", quality |-> "128k",
      file_type |-> "m4a", file_path |-> "/dl/B.%(ext)s"]}

\* datetime.now().isoformat(): a non-empty timestamp.
isoformat == "2024-01-01T00:00:00"

\* --------------------------------------------------------- DatabaseManager
\* INSERT INTO downloads: the thirteen columns written, the other four NULL.
add_download(table, id, item) ==
    [j \in DOMAIN table \cup {id} |->
        IF j = id
        THEN [url |-> item.url, format_id |-> item.format_id,
              quality |-> item.quality, file_type |-> item.file_type,
              file_path |-> item.file_path, file_size |-> item.file_size,
              progress |-> item.progress, status |-> item.status,
              created_at |-> item.created_at,
              completed_at |-> NULL, speed |-> NULLTEXT, eta |-> NULLTEXT,
              error_message |-> NULL]
        ELSE table[j]]

\* update_download gone wrong: the row is written back whole from a fresh
\* DownloadItem that carries only the fields supplied.
update_download_whole_item(table, id, kwargs) ==
    [j \in DOMAIN table |->
        IF j = id
        THEN [f \in DOMAIN table[j] |->
                 IF f \in DOMAIN kwargs THEN kwargs[f]
                 ELSE IF f \in {"url", "format_id", "quality", "file_type", "file_path"}
                      THEN ""
                 ELSE IF f = "file_size" THEN 0
                 ELSE table[j][f]]
        ELSE table[j]]

\* update_download gone wrong: UPDATE without the WHERE clause, every row is
\* written.
update_download_every_row(table, id, kwargs) ==
    [j \in DOMAIN table |->
        [f \in DOMAIN table[j] |->
            IF f \in DOMAIN kwargs THEN kwargs[f] ELSE table[j][f]]]

\* update_download gone wrong: the row is read, changed and written back
\* with the columns not supplied at their values of creation.
update_download_resets_others(table, id, kwargs) ==
    [j \in DOMAIN table |->
        IF j = id
        THEN [f \in DOMAIN table[j] |->
                 IF f \in DOMAIN kwargs THEN kwargs[f]
                 ELSE IF f = "status" THEN "pending"
                 ELSE IF f = "progress" THEN 0
                 ELSE IF f \in {"speed", "eta"} THEN NULLTEXT
                 ELSE table[j][f]]
        ELSE table[j]]

\* update_download gone wrong: INSERT OR REPLACE, a row is made when no row
\* has the id.
update_download_upserts(table, id, kwargs) ==
    [j \in DOMAIN table \cup {id} |->
        IF j = id
        THEN [f \in {"url", "format_id", "quality", "file_type", "file_path",
                     "file_size", "progress", "status", "created_at",
                     "completed_at", "speed", "eta", "error_message"} |->
                 IF f \in DOMAIN kwargs THEN kwargs[f]
                 ELSE IF j \in DOMAIN table THEN table[j][f]
                 ELSE IF f \in {"speed", "eta"} THEN NULLTEXT
                 ELSE IF f \in {"file_size", "progress", "created_at"} THEN 0
                 ELSE NULL]
        ELSE table[j]]

\* UPDATE downloads SET <kwargs> WHERE id = ?: the named columns of that row,
\* nothing when no row has the id.
update_download(table, id, kwargs) ==
    [j \in DOMAIN table |->
        IF j = id
        THEN [f \in DOMAIN table[j] |->
                 IF f \in DOMAIN kwargs THEN kwargs[f] ELSE table[j][f]]
        ELSE table[j]]

\* SELECT * FROM downloads WHERE id = ?: Optional[DownloadItem], <<row>> or
\* <<>> for None.
get_download_by_id(table, id) ==
    IF id \in DOMAIN table THEN <<table[id]>> ELSE <<>>

\* The ids of S in the order of ORDER BY created_at DESC.
RECURSIVE Newest(_, _)
Newest(table, S) ==
    IF S = {} THEN <<>>
    ELSE LET j == CHOOSE x \in S : \A y \in S : table[y].created_at <= table[x].created_at
         IN  <<j>> \o Newest(table, S \ {j})

\* get_downloads gone wrong: ORDER BY created_at, the oldest first.
get_downloads_oldest_first(table, status) ==
    LET ids == Newest(table, IF status \notin {NULL, ""}
                             THEN {j \in DOMAIN table : table[j].status = status}
                             ELSE DOMAIN table)
    IN  [i \in 1..Len(ids) |->
            [id |-> ids[Len(ids) + 1 - i]] @@ table[ids[Len(ids) + 1 - i]]]

\* get_downloads: SELECT * FROM downloads [WHERE status = ?] ORDER BY
\* created_at DESC, as DownloadItems; `if status:` takes None and '' alike
\* as no filter.
get_downloads(table, status) ==
    LET ids == Newest(table, IF status \notin {NULL, ""}
                             THEN {j \in DOMAIN table : table[j].status = status}
                             ELSE DOMAIN table)
    IN  [i \in 1..Len(ids) |-> [id |-> ids[i]] @@ table[ids[i]]]

\* DELETE FROM downloads WHERE id = ?.
delete_download(table, id) == [j \in DOMAIN table \ {id} |-> table[j]]

\* ----------------------------------------------------------- the processes
\* A subprocess is unborn (Popen not yet called), running, stopped (SIGSTOP),
\* or has ended: exit0, exit1 (yt-dlp's failure code) or killed (SIGTERM).
\* sigterm: a SIGTERM is pending on a stopped process.
Ended == {"exit0", "exit1", "killed"}

NoProcess == [state |-> "unborn", sigterm |-> FALSE]

\* Popen.returncode once poll() has seen the process end.
returncode(p) ==
    CASE p.state = "exit0" -> 0
      [] p.state = "exit1" -> 1
      [] p.state = "killed" -> -15

\* process.send_signal(SIGSTOP): nothing on a process that has ended.
send_SIGSTOP(p) ==
    IF p.state = "running" THEN [p EXCEPT !.state = "stopped"] ELSE p

\* process.send_signal(SIGCONT): a stopped process runs again, and dies at
\* once of a SIGTERM that was pending.
send_SIGCONT(p) ==
    IF p.state = "stopped"
    THEN IF p.sigterm THEN [state |-> "killed", sigterm |-> FALSE]
         ELSE [p EXCEPT !.state = "running"]
    ELSE p

\* process.terminate(): SIGTERM ends a running process, stays pending on a
\* stopped one, and is not sent to one that has ended.
terminate(p) ==
    CASE p.state = "running" -> [p EXCEPT !.state = "killed"]
      [] p.state = "stopped" -> [p EXCEPT !.sigterm = TRUE]
      [] OTHER -> p

\* ------------------------------------------------------------ YTDLPManager
\* A call that returns before it touches anything.
Skip == UNCHANGED manager /\ success' = "None"

Remove(f, k) == [x \in DOMAIN f \ {k} |-> f[x]]
Put(f, k, v) == [x \in DOMAIN f \cup {k} |-> IF x = k THEN v ELSE f[x]]

\* The process handle active_downloads holds for a job.
process_of(id) == workers[active_downloads[id]].process

SetProcess(w, p) == [workers EXCEPT ![w].process = p]

\* str(e) of what Popen raises when yt-dlp cannot be executed, and of what
\* readline raises on output it cannot decode.
SpawnError == "[Errno 2] No such file or directory: 'yt-dlp'"
ReadError == "'utf-8' codec can't decode byte"

\* The caller adds a job: DownloadItem(...) with status "pending", then
\* add_download, which returns the new row's id.
AddDownload(item) ==
    /\ lastrowid < MaxJobs
    /\ db' = add_download(db, lastrowid + 1,
                DownloadItem(item.url, item.format_id, item.quality,
                             item.file_type, item.file_path, lastrowid + 1))
    /\ lastrowid' = lastrowid + 1
    /\ UNCHANGED <<max_concurrent, active_downloads, download_threads, workers>>
    /\ success' = "None"

\* The caller deletes a job from the history.
DeleteDownload(id) ==
    /\ id \in DOMAIN db
    /\ db' = delete_download(db, id)
    /\ UNCHANGED <<lastrowid, max_concurrent, active_downloads, download_threads, workers>>
    /\ success' = "None"

\* start_download gone wrong: the jobs stored as 'downloading' are counted.
start_download_counts_downloading(download_id, url, format_id, output_path) ==
    LET downloading == {j \in DOMAIN db : db[j].status = "downloading"}
    IN  \/ /\ Cardinality(downloading) >= max_concurrent
           /\ success' = "False"
           /\ UNCHANGED manager
        \/ /\ Cardinality(downloading) < max_concurrent
           /\ Len(workers) < MaxWorkers
           /\ workers' = Append(workers,
                   [download_id |-> download_id, url |-> url,
                    format_id |-> format_id, output_path |-> output_path,
                    pc |-> "update_downloading", process |-> NoProcess])
           /\ download_threads' = Put(download_threads, download_id, Len(workers) + 1)
           /\ success' = "True"
           /\ UNCHANGED <<db, lastrowid, max_concurrent, active_downloads>>

\* start_download gone wrong: a refused start marks the job 'failed'.
start_download_fails_refused(download_id, url, format_id, output_path) ==
    \/ /\ Cardinality(DOMAIN active_downloads) >= max_concurrent
       /\ success' = "False"
       /\ db' = [j \in DOMAIN db |->
                   IF j = download_id
                   THEN [db[j] EXCEPT !.status = "failed",
                                      !.error_message = "Maximum concurrent downloads reached!"]
                   ELSE db[j]]
       /\ UNCHANGED <<lastrowid, max_concurrent, active_downloads, download_threads, workers>>
    \/ /\ Cardinality(DOMAIN active_downloads) < max_concurrent
       /\ Len(workers) < MaxWorkers
       /\ workers' = Append(workers,
               [download_id |-> download_id, url |-> url,
                format_id |-> format_id, output_path |-> output_path,
                pc |-> "update_downloading", process |-> NoProcess])
       /\ download_threads' = Put(download_threads, download_id, Len(workers) + 1)
       /\ success' = "True"
       /\ UNCHANGED <<db, lastrowid, max_concurrent, active_downloads>>

\* start_download: refused (False) when active_downloads is full; otherwise
\* a download_worker thread is created, entered in download_threads and
\* started (True).
start_download(download_id, url, format_id, output_path) ==
    \/ /\ Cardinality(DOMAIN active_downloads) >= max_concurrent
       /\ success' = "False"
       /\ UNCHANGED manager
    \/ /\ Cardinality(DOMAIN active_downloads) < max_concurrent
       /\ Len(workers) < MaxWorkers
       /\ workers' = Append(workers,
               [download_id |-> download_id, url |-> url,
                format_id |-> format_id, output_path |-> output_path,
                pc |-> "update_downloading", process |-> NoProcess])
       /\ download_threads' = Put(download_threads, download_id, Len(workers) + 1)
       /\ success' = "True"
       /\ UNCHANGED <<db, lastrowid, max_concurrent, active_downloads>>

\* The caller starts a job it has added: the row is 'pending' and no worker
\* was created for it yet (a start that was refused may be submitted again).
StartDownload(id) ==
    /\ id \in DOMAIN db
    /\ db[id].status = "pending"
    /\ \A w \in 1..Len(workers) : workers[w].download_id # id
    /\ start_download(id, db[id].url, db[id].format_id, db[id].file_path)

\* retry_download gone wrong: an admitted retry also puts the job back to
\* 'pending'.
retry_download_sets_pending(download_id) ==
    IF get_download_by_id(db, download_id) # <<>>
    THEN \/ /\ Cardinality(DOMAIN active_downloads) >= max_concurrent
            /\ success' = "False"
            /\ UNCHANGED manager
         \/ /\ Cardinality(DOMAIN active_downloads) < max_concurrent
            /\ Len(workers) < MaxWorkers
            /\ workers' = Append(workers,
                    [download_id |-> download_id, url |-> db[download_id].url,
                     format_id |-> db[download_id].format_id,
                     output_path |-> db[download_id].file_path,
                     pc |-> "update_downloading", process |-> NoProcess])
            /\ download_threads' = Put(download_threads, download_id, Len(workers) + 1)
            /\ db' = update_download(db, download_id, [status |-> "pending"])
            /\ success' = "True"
            /\ UNCHANGED <<lastrowid, max_concurrent, active_downloads>>
    ELSE Skip

\* retry_download: start_download with the stored url, format and path, for
\* any id that has a row.
retry_download(download_id) ==
    LET download == get_download_by_id(db, download_id)
    IN  IF download # <<>>
        THEN start_download(download_id, download[1].url,
                            download[1].format_id, download[1].file_path)
        ELSE Skip

\* pause_download gone wrong: the status is written whether the id is in
\* active_downloads or not.
pause_download_writes_always(download_id) ==
    /\ workers' = IF download_id \in DOMAIN active_downloads
                  THEN SetProcess(active_downloads[download_id],
                                  send_SIGSTOP(process_of(download_id)))
                  ELSE workers
    /\ db' = update_download(db, download_id, [status |-> "paused"])
    /\ UNCHANGED <<lastrowid, max_concurrent, active_downloads, download_threads>>
    /\ success' = "None"

\* pause_download: SIGSTOP and status 'paused', for an id in active_downloads.
pause_download(download_id) ==
    IF download_id \in DOMAIN active_downloads
    THEN /\ workers' = SetProcess(active_downloads[download_id],
                                  send_SIGSTOP(process_of(download_id)))
         /\ db' = update_download(db, download_id, [status |-> "paused"])
         /\ UNCHANGED <<lastrowid, max_concurrent, active_downloads, download_threads>>
         /\ success' = "None"
    ELSE Skip

\* resume_download: SIGCONT and status 'downloading'.
resume_download(download_id) ==
    IF download_id \in DOMAIN active_downloads
    THEN /\ workers' = SetProcess(active_downloads[download_id],
                                  send_SIGCONT(process_of(download_id)))
         /\ db' = update_download(db, download_id, [status |-> "downloading"])
         /\ UNCHANGED <<lastrowid, max_concurrent, active_downloads, download_threads>>
         /\ success' = "None"
    ELSE Skip

\* cancel_download gone wrong: the process is terminated and the status is
\* left for the worker to write when it sees the process end.
cancel_download_leaves_status(download_id) ==
    IF download_id \in DOMAIN active_downloads
    THEN /\ workers' = SetProcess(active_downloads[download_id],
                                  terminate(process_of(download_id)))
         /\ UNCHANGED <<db, lastrowid, max_concurrent, active_downloads, download_threads>>
         /\ success' = "None"
    ELSE Skip

\* cancel_download: terminate() and status 'cancelled'.
cancel_download(download_id) ==
    IF download_id \in DOMAIN active_downloads
    THEN /\ workers' = SetProcess(active_downloads[download_id],
                                  terminate(process_of(download_id)))
         /\ db' = update_download(db, download_id, [status |-> "cancelled"])
         /\ UNCHANGED <<lastrowid, max_concurrent, active_downloads, download_threads>>
         /\ success' = "None"
    ELSE Skip

\* -------------------------------------------------------- download_worker
\* One step of worker w.  Its positions: update_downloading (before line
\* 266), Popen (before line 284), readline (the loop of lines 296-302),
\* finally (before line 328), done.
At(w, where) == w \in 1..Len(workers) /\ workers[w].pc = where

Goto(w, where) == [workers EXCEPT ![w].pc = where]

\* Line 266: the worker marks its job 'downloading'.
WorkerMarksDownloading(w) ==
    /\ At(w, "update_downloading")
    /\ db' = update_download(db, workers[w].download_id, [status |-> "downloading"])
    /\ workers' = Goto(w, "Popen")
    /\ UNCHANGED <<lastrowid, max_concurrent, active_downloads, download_threads>>
    /\ success' = "None"

\* Lines 284-293: Popen starts yt-dlp and the handle is registered.
WorkerSpawns(w) ==
    /\ At(w, "Popen")
    /\ workers' = [workers EXCEPT ![w].pc = "readline",
                                  ![w].process = [state |-> "running", sigterm |-> FALSE]]
    /\ active_downloads' = Put(active_downloads, workers[w].download_id, w)
    /\ UNCHANGED <<db, lastrowid, max_concurrent, download_threads>>
    /\ success' = "None"

\* The except clause gone wrong: the exception is swallowed and no outcome
\* is written.
except_Exception_passes(w, e) ==
    /\ workers' = Goto(w, "finally")
    /\ UNCHANGED <<db, lastrowid, max_concurrent, active_downloads, download_threads>>
    /\ success' = "None"

\* Lines 319-324: the except clause, status 'failed' with str(e).
except_Exception(w, e) ==
    /\ db' = update_download(db, workers[w].download_id,
                             [status |-> "failed", error_message |-> e])
    /\ workers' = Goto(w, "finally")
    /\ UNCHANGED <<lastrowid, max_concurrent, active_downloads, download_threads>>
    /\ success' = "None"

\* Line 284 raises: yt-dlp cannot be executed.
WorkerSpawnFails(w) ==
    /\ At(w, "Popen")
    /\ except_Exception(w, SpawnError)

\* parse_progress gone wrong: a line that is no progress report blanks the
\* speed and the eta.
parse_progress_blanks(table, download_id, kwargs) ==
    IF kwargs # NoUpdate THEN update_download(table, download_id, kwargs)
    ELSE update_download(table, download_id, [speed |-> <<>>, eta |-> <<>>])

\* parse_progress: the update a progress line leads to, nothing for any
\* other line.
parse_progress(table, download_id, kwargs) ==
    IF kwargs # NoUpdate THEN update_download(table, download_id, kwargs) ELSE table

\* Lines 297-302: readline returns a line the running process wrote.
WorkerReadsLine(w, line) ==
    /\ At(w, "readline")
    /\ workers[w].process.state = "running"
    /\ db' = parse_progress(db, workers[w].download_id, LineKwargs[line])
    /\ UNCHANGED <<lastrowid, max_concurrent, active_downloads, download_threads, workers>>
    /\ success' = "None"

\* Line 297 raises on output of the running process.
WorkerReadFails(w) ==
    /\ At(w, "readline")
    /\ workers[w].process.state = "running"
    /\ except_Exception(w, ReadError)

\* The final status gone wrong: 'completed' is written without the progress.
final_kwargs_keeps_progress(code) ==
    IF code = 0
    THEN [status |-> "completed", completed_at |-> isoformat]
    ELSE [status |-> "failed", error_message |-> "Download failed"]

\* The final status for an exit code (lines 305-317).
final_kwargs(code) ==
    IF code = 0
    THEN [status |-> "completed", progress |-> 1000, completed_at |-> isoformat]
    ELSE [status |-> "failed", error_message |-> "Download failed"]

\* Lines 298-317: end of stream with the process ended; the final status is
\* written from the exit code.
WorkerEndOfStream(w) ==
    /\ At(w, "readline")
    /\ workers[w].process.state \in Ended
    /\ db' = update_download(db, workers[w].download_id,
                             final_kwargs(returncode(workers[w].process)))
    /\ workers' = Goto(w, "finally")
    /\ UNCHANGED <<lastrowid, max_concurrent, active_downloads, download_threads>>
    /\ success' = "None"

\* The finally block gone wrong: the entry of download_threads stays.
WorkerFinally_keeps_thread(w) ==
    /\ At(w, "finally")
    /\ active_downloads' = Remove(active_downloads, workers[w].download_id)
    /\ workers' = Goto(w, "done")
    /\ UNCHANGED <<db, lastrowid, max_concurrent, download_threads>>
    /\ success' = "None"

\* Lines 326-331: the job's entries leave both registries.
WorkerFinally(w) ==
    /\ At(w, "finally")
    /\ active_downloads' = Remove(active_downloads, workers[w].download_id)
    /\ download_threads' = Remove(download_threads, workers[w].download_id)
    /\ workers' = Goto(w, "done")
    /\ UNCHANGED <<db, lastrowid, max_concurrent>>
    /\ success' = "None"

\* The running subprocess of worker w ends by itself with an exit code.
ProcessExits(w, state) ==
    /\ w \in 1..Len(workers)
    /\ workers[w].process.state = "running"
    /\ workers' = SetProcess(w, [state |-> state, sigterm |-> FALSE])
    /\ UNCHANGED <<db, lastrowid, max_concurrent, active_downloads, download_threads>>
    /\ success' = "None"

\* ----------------------------------------------------------- specification
EmptyMap == [x \in {} |-> 0]

Init ==
    /\ db = EmptyMap
    /\ lastrowid = 0
    /\ max_concurrent \in 1..MaxLimit
    /\ active_downloads = EmptyMap
    /\ download_threads = EmptyMap
    /\ workers = <<>>
    /\ success = "None"

Next ==
    \/ \E item \in Items : AddDownload(item)
    \/ \E id \in JobIds : DeleteDownload(id)
    \/ \E id \in JobIds : StartDownload(id)
    \/ \E id \in JobIds : retry_download(id)
    \/ \E id \in JobIds : pause_download(id)
    \/ \E id \in JobIds : resume_download(id)
    \/ \E id \in JobIds : cancel_download(id)
    \/ \E w \in 1..MaxWorkers : WorkerMarksDownloading(w)
    \/ \E w \in 1..MaxWorkers : WorkerSpawns(w)
    \/ \E w \in 1..MaxWorkers : WorkerSpawnFails(w)
    \/ \E w \in 1..MaxWorkers, line \in OutputLines : WorkerReadsLine(w, line)
    \/ \E w \in 1..MaxWorkers : WorkerReadFails(w)
    \/ \E w \in 1..MaxWorkers : WorkerEndOfStream(w)
    \/ \E w \in 1..MaxWorkers : WorkerFinally(w)
    \/ \E w \in 1..MaxWorkers, state \in {"exit0", "exit1"} : ProcessExits(w, state)

Spec == Init /\ [][Next]_vars

\* A step of the thread of worker w that the scheduler alone decides: the
\* statements before Popen, Popen returning or raising, the end of the
\* stream once the process has ended, and the finally block.
WorkerRuns(w) ==
    \/ WorkerMarksDownloading(w)
    \/ WorkerSpawns(w)
    \/ WorkerSpawnFails(w)
    \/ WorkerEndOfStream(w)
    \/ WorkerFinally(w)

\* The subprocess of worker w ends by itself.
ProcessEnds(w) == \E state \in {"exit0", "exit1"} : ProcessExits(w, state)

\* The program under a fair scheduler, with subprocesses that end unless
\* they are kept stopped: a thread that can run does run, and a process
\* that is running again and again ends.  The callers owe nothing.
Fairness ==
    \A w \in 1..MaxWorkers : WF_vars(WorkerRuns(w)) /\ SF_vars(ProcessEnds(w))

SpecFair == Init /\ [][Next]_vars /\ Fairness

\* The application is closed without cleanup, or crashes, and is started
\* again over the same database file: the worker threads and their Popen
\* handles are gone with the old process, and the new YTDLPManager begins
\* with empty registries.  No statement of __init__ or of main reads or
\* writes the downloads table.
Startup ==
    /\ \E w \in 1..Len(workers) : workers[w].pc # "done"
    /\ workers' = [w \in 1..Len(workers) |->
                      [workers[w] EXCEPT !.pc = "done", !.process = NoProcess]]
    /\ active_downloads' = EmptyMap
    /\ download_threads' = EmptyMap
    /\ UNCHANGED <<db, lastrowid, max_concurrent>>
    /\ success' = "None"

NextStartup == Next \/ Startup

\* The program with subprocesses that report progress against an estimated
\* total.
EstimateLines == {Line1004, LineWarning}

NextEstimate ==
    \/ \E item \in Items : AddDownload(item)
    \/ \E id \in JobIds : DeleteDownload(id)
    \/ \E id \in JobIds : StartDownload(id)
    \/ \E id \in JobIds : retry_download(id)
    \/ \E id \in JobIds : pause_download(id)
    \/ \E id \in JobIds : resume_download(id)
    \/ \E id \in JobIds : cancel_download(id)
    \/ \E w \in 1..MaxWorkers : WorkerMarksDownloading(w)
    \/ \E w \in 1..MaxWorkers : WorkerSpawns(w)
    \/ \E w \in 1..MaxWorkers : WorkerSpawnFails(w)
    \/ \E w \in 1..MaxWorkers, line \in EstimateLines : WorkerReadsLine(w, line)
    \/ \E w \in 1..MaxWorkers : WorkerReadFails(w)
    \/ \E w \in 1..MaxWorkers : WorkerEndOfStream(w)
    \/ \E w \in 1..MaxWorkers : WorkerFinally(w)
    \/ \E w \in 1..MaxWorkers, state \in {"exit0", "exit1"} : ProcessExits(w, state)

SpecEstimate == Init /\ [][NextEstimate]_vars

\* The workers as readers: jobs are added and started, and each worker reads
\* whatever line its running subprocess writes.
NextParse ==
    \/ \E item \in Items : AddDownload(item)
    \/ \E id \in JobIds : StartDownload(id)
    \/ \E w \in 1..MaxWorkers : WorkerMarksDownloading(w)
    \/ \E w \in 1..MaxWorkers : WorkerSpawns(w)
    \/ \E w \in 1..MaxWorkers, line \in ParseLines : WorkerReadsLine(w, line)

SpecParse == Init /\ [][NextParse]_vars

\* DatabaseManager by itself: add_download, delete_download and
\* update_download called with keyword arguments the manager and its workers
\* use (lines 266, 307-317, 321-324, 362-367, 380, 390, 400).
StoreKwargs ==
    {[status |-> "downloading"], [status |-> "paused"], [status |-> "cancelled"],
     LineKwargs[Line452], LineKwargs[Line50], final_kwargs(0), final_kwargs(1)}

UpdateDownload(id, kwargs) ==
    /\ db' = update_download(db, id, kwargs)
    /\ UNCHANGED <<lastrowid, max_concurrent, active_downloads, download_threads, workers>>
    /\ success' = "None"

NextStore ==
    \/ \E item \in Items : AddDownload(item)
    \/ \E id \in JobIds : DeleteDownload(id)
    \/ \E id \in JobIds, kwargs \in StoreKwargs : UpdateDownload(id, kwargs)

SpecStore == Init /\ [][NextStore]_vars

\* The program over several runs of the application.
SpecStartup == Init /\ [][NextStartup]_vars

\* ------------------------------------------------------------------ claims
Existing == DOMAIN db
Surviving == DOMAIN db \cap DOMAIN db'
Threads == 1..Len(workers)
Downloading == {j \in Existing : db[j].status = "downloading"}

\* Worker w leaves position `where` in this step.
Leaves(w, where) == workers[w].pc = where /\ workers'[w].pc # where

\* Worker w makes its final write in this step (lines 305-324).
WritesOutcome(w) == workers[w].pc # "finally" /\ workers'[w].pc = "finally"

\* A worker for job j is created in this step.
WorkerCreatedFor(j) ==
    /\ Len(workers') = Len(workers) + 1
    /\ workers'[Len(workers')].download_id = j

\* C1: the number of jobs whose stored status is 'downloading' never
\* exceeds max_concurrent.
C1_DownloadingWithinLimit == Cardinality(Downloading) <= max_concurrent

\* C2: a worker that reaches its final write (end of stream, or an
\* exception) for a job whose stored status is 'cancelled' leaves that
\* status 'cancelled'.
C2_WorkerKeepsCancelled ==
    [][\A w \in Threads :
          LET j == workers[w].download_id
          IN  (/\ j \in Surviving
               /\ db[j].status = "cancelled"
               /\ WritesOutcome(w))
              => db'[j].status = "cancelled"]_vars

\* C3: 'completed' and 'cancelled' are terminal: no step changes a stored
\* status that is 'completed' or 'cancelled'.
C3_TerminalStatusStays ==
    [][\A j \in Surviving :
          db[j].status \in {"completed", "cancelled"}
              => db'[j].status = db[j].status]_vars

\* The edges of the job state machine.
Edges ==
    {<<"pending", "downloading">>, <<"downloading", "paused">>,
     <<"paused", "downloading">>, <<"downloading", "completed">>,
     <<"downloading", "failed">>, <<"downloading", "cancelled">>,
     <<"paused", "cancelled">>, <<"failed", "pending">>}

\* C4: every change of a stored status is an edge of the job state machine.
C4_OnlyStateMachineEdges ==
    [][\A j \in Surviving :
          db'[j].status # db[j].status
              => <<db[j].status, db'[j].status>> \in Edges]_vars

\* The unfinished workers and the live subprocesses of a job.
WorkersOf(j) ==
    {w \in Threads : workers[w].download_id = j /\ workers[w].pc # "done"}
LiveProcessesOf(j) ==
    {w \in Threads : /\ workers[w].download_id = j
                     /\ workers[w].process.state \in {"running", "stopped"}}

\* C5: a job never has two workers, nor two live subprocesses, at a time.
C5_OneWorkerPerJob ==
    \A j \in JobIds :
        /\ Cardinality(WorkersOf(j)) <= 1
        /\ Cardinality(LiveProcessesOf(j)) <= 1

\* C6: the stored progress does not decrease from one state to the next
\* while the status is 'downloading' in both.
C6_ProgressMonotonic ==
    [][\A j \in Surviving :
          (db[j].status = "downloading" /\ db'[j].status = "downloading")
              => db'[j].progress >= db[j].progress]_vars

\* C7: a job whose stored status is 'completed' has progress 100.0.
C7_CompletedHasFullProgress ==
    \A j \in Existing : db[j].status = "completed" => db[j].progress = 1000

\* C8: completed_at is set if and only if the stored status is 'completed'.
C8_CompletedAtIffCompleted ==
    \A j \in Existing : (db[j].completed_at # NULL) <=> (db[j].status = "completed")

Descriptor(row) ==
    [url |-> row.url, format_id |-> row.format_id, file_path |-> row.file_path,
     quality |-> row.quality, file_type |-> row.file_type,
     file_size |-> row.file_size]

\* C10: no step changes the url, format_id, file_path, quality, file_type
\* or file_size of an existing job.
C10_DescriptorImmutable ==
    [][\A j \in Surviving : Descriptor(db'[j]) = Descriptor(db[j])]_vars

\* A job whose first worker failed and finished, and whose retry (created
\* after that) has read progress and written 'completed': the row still
\* carries one of the descriptors submitted.
C10_Witness ==
    \E j \in Existing :
        /\ db[j].status = "completed"
        /\ db[j].error_message # NULL
        /\ db[j].progress = 1000
        /\ db[j].speed # NULLTEXT
        /\ j \in DOMAIN download_threads
        /\ workers[download_threads[j]].pc = "finally"
        /\ \E v \in Threads : workers[v].download_id = j /\ workers[v].pc = "done"
        /\ \E item \in Items :
              Descriptor(db[j]) = [url |-> item.url, format_id |-> item.format_id,
                                   file_path |-> item.file_path, quality |-> item.quality,
                                   file_type |-> item.file_type, file_size |-> 0]
        /\ Cardinality({w \in Threads : workers[w].download_id = j}) = 2

\* The entries of active_downloads whose worker has not exited.
HeldSlots == {j \in DOMAIN active_downloads : workers[active_downloads[j]].pc # "done"}

\* C11: when Popen raises in an admitted worker, the worker writes status
\* 'failed' with a non-empty error_message; the job never enters
\* active_downloads, its worker's exit leaves it out of it, and a later
\* start_download is refused only when workers that have not exited hold
\* max_concurrent entries.
C11_SpawnFailureFailsAndFreesSlot ==
    [][/\ \A w \in Threads :
            LET j == workers[w].download_id
            IN  /\ (workers[w].pc = "Popen" /\ workers'[w].pc = "finally" /\ j \in Surviving)
                       => /\ db'[j].status = "failed"
                          /\ db'[j].error_message \notin {NULL, ""}
                          /\ active_downloads' = active_downloads
                /\ (Leaves(w, "finally") /\ workers[w].process.state = "unborn")
                       => j \notin DOMAIN active_downloads'
       /\ success' = "False" => Cardinality(HeldSlots) >= max_concurrent
      ]_vars

\* A job failed at spawn, its worker has exited, and the start of the other
\* job has just been admitted.
C11_Witness ==
    \E w, v \in Threads :
        /\ w < v
        /\ workers[w].pc = "done"
        /\ workers[w].process.state = "unborn"
        /\ workers[w].download_id \in Existing
        /\ db[workers[w].download_id].status = "failed"
        /\ db[workers[w].download_id].error_message = SpawnError
        /\ workers[v].download_id # workers[w].download_id
        /\ workers[v].pc = "update_downloading"
        /\ success = "True"

\* The jobs that have an entry in either registry.
Registered == DOMAIN active_downloads \cup DOMAIN download_threads

\* C12: the step in which a worker exits, on whatever path, leaves its job
\* in neither active_downloads nor download_threads; and no entry of either
\* registry refers to a worker that has exited, so a job all of whose
\* workers have exited has no entry.
C12_ExitReleasesRegistries ==
    /\ [](/\ \A j \in DOMAIN active_downloads :
                workers[active_downloads[j]].pc # "done"
          /\ \A j \in DOMAIN download_threads :
                workers[download_threads[j]].pc # "done"
          /\ \A j \in Registered : WorkersOf(j) # {})
    /\ [][\A w \in Threads :
            Leaves(w, "finally") => workers[w].download_id \notin Registered']_vars

\* One worker has exited after its process was terminated, another after its
\* process ended by itself, and neither registry holds an entry.
C12_Witness ==
    /\ Registered = {}
    /\ \E w, v \in Threads :
        /\ workers[w].pc = "done"
        /\ workers[w].process.state = "killed"
        /\ workers[v].pc = "done"
        /\ workers[v].process.state \in {"exit0", "exit1"}

\* The rows, seen without the job j.
Others(table, j) == [i \in DOMAIN table \ {j} |-> table[i]]

\* C13: a step in which start_download returns False changes neither the
\* store nor the registries and creates no worker; the job it was called for
\* in its 'pending' state keeps status, progress and error_message.
C13_RefusedStartChangesNothing ==
    [][success' = "False" =>
          /\ db' = db
          /\ active_downloads' = active_downloads
          /\ download_threads' = download_threads
          /\ workers' = workers
          /\ lastrowid' = lastrowid
          /\ max_concurrent' = max_concurrent
      ]_vars

\* start_download of a 'pending' job that no worker was ever created for has
\* just returned False.
C13_Witness ==
    /\ success = "False"
    /\ \E j \in Existing :
        /\ db[j].status = "pending"
        /\ db[j].progress = 0
        /\ db[j].error_message = NULL
        /\ \A w \in Threads : workers[w].download_id # j
    /\ Cardinality(DOMAIN active_downloads) >= max_concurrent

\* The application starts again in this step, over workers that had not
\* reached their finally block.
StartsAgain ==
    /\ active_downloads' = EmptyMap
    /\ download_threads' = EmptyMap
    /\ \E w \in Threads : workers[w].pc \notin {"finally", "done"}
    /\ \A w \in Threads : workers'[w].pc = "done"

\* C14: when the application has started again, no job is stored as
\* 'downloading': startup has set every such job, which has no live worker
\* in the new manager, to 'failed' or 'pending'.
C14_StartupReconcilesDownloading ==
    [][StartsAgain => \A j \in DOMAIN db' : db'[j].status # "downloading"]_vars

\* terminate() takes effect on the process of worker w in this step: a
\* running process is killed, or a SIGTERM becomes pending on a stopped one.
Terminated(w) ==
    \/ workers[w].process.state = "running" /\ workers'[w].process.state = "killed"
    \/ ~workers[w].process.sigterm /\ workers'[w].process.sigterm

\* C15: the step in which cancel_download terminates the process registered
\* for a 'downloading' or 'paused' job leaves the job stored as 'cancelled',
\* whether the process has ended in that step or not.
C15_CancelIsSynchronous ==
    [][\A j \in DOMAIN active_downloads \cap Surviving :
          (Terminated(active_downloads[j]) /\ db[j].status \in {"downloading", "paused"})
              => db'[j].status = "cancelled"]_vars

\* A job is stored as 'cancelled' while its process, stopped with the
\* SIGTERM pending, has not ended and is still registered.
C15_Witness ==
    \E j \in DOMAIN active_downloads \cap Existing :
        /\ db[j].status = "cancelled"
        /\ process_of(j).state = "stopped"
        /\ process_of(j).sigterm
        /\ workers[active_downloads[j]].pc = "readline"

\* The keyword arguments the manager and its workers pass to update_download.
Kwargs ==
    {[status |-> st] : st \in {"downloading", "paused", "cancelled"}}
        \cup {LineKwargs[l] : l \in {x \in OutputLines : LineKwargs[x] # NoUpdate}}
        \cup {final_kwargs(0), final_kwargs(1)}
        \cup {[status |-> "failed", error_message |-> e] : e \in {SpawnError, ReadError}}

\* The ids add_download has handed out.
Issued == 1..lastrowid

\* C16: delete_download leaves no row with the id and the other rows as they
\* were, and is a no-op for an id that has no row; no update_download for an
\* id without a row makes one; and a row that is gone never comes back.
C16_DeleteIsPermanent ==
    /\ [](\A id \in JobIds :
            LET table == delete_download(db, id)
            IN  /\ get_download_by_id(table, id) = <<>>
                /\ Others(table, id) = Others(db, id)
                /\ id \notin DOMAIN db => table = db)
    /\ [](\A id \in Issued \ DOMAIN db : \A kwargs \in Kwargs :
            update_download(db, id, kwargs) = db)
    /\ [][\A id \in Issued : id \notin DOMAIN db => id \notin DOMAIN db']_vars

\* A job was deleted while its worker reads the output of the running
\* process, whose next progress report will be an update for the deleted id;
\* another job's row is in the table.
C16_Witness ==
    \E id \in Issued \ DOMAIN db :
        /\ id \in DOMAIN active_downloads
        /\ workers[active_downloads[id]].pc = "readline"
        /\ process_of(id).state = "running"
        /\ DOMAIN db # {}

\* C17: update_download writes the supplied fields of the one job and nothing
\* else: every other field of the job and every field of every other job is
\* as before, and no row is added or removed.
C17_UpdateIsPartialMerge ==
    \A id \in JobIds : \A kwargs \in Kwargs :
        LET table == update_download(db, id, kwargs)
        IN  /\ DOMAIN table = DOMAIN db
            /\ \A j \in DOMAIN db : \A f \in DOMAIN db[j] :
                   table[j][f] = IF j = id /\ f \in DOMAIN kwargs
                                 THEN kwargs[f] ELSE db[j][f]

\* One job carries the progress report its worker wrote and the status the
\* caller wrote, and the other job is as it was added.
C17_Witness ==
    \E i, j \in Existing :
        /\ i # j
        /\ db[i].status = "paused"
        /\ db[i].progress = 452
        /\ db[j] = add_download(db, j, DownloadItem(db[j].url, db[j].format_id,
                        db[j].quality, db[j].file_type, db[j].file_path, j))[j]

\* C18: two update_download calls for the same job, in whichever order the
\* store serialises them: on disjoint sets of fields both orders give the
\* same row, which holds the values of both calls; on a common field the
\* row holds the value of the call that came last.
C18_ConcurrentUpdatesKeepBoth ==
    \A id \in Existing : \A a, b \in Kwargs :
        LET ab == update_download(update_download(db, id, a), id, b)[id]
            ba == update_download(update_download(db, id, b), id, a)[id]
        IN  /\ DOMAIN a \cap DOMAIN b = {}
                  => /\ ab = ba
                     /\ \A f \in DOMAIN a : ab[f] = a[f]
                     /\ \A f \in DOMAIN b : ab[f] = b[f]
            /\ \A f \in DOMAIN a \cap DOMAIN b : ab[f] = b[f] /\ ba[f] = a[f]

\* A job holds the status of a cancel and the progress, speed and eta of a
\* progress report: updates on disjoint fields, both kept.
C18_Witness ==
    \E j \in Existing :
        /\ db[j].status = "cancelled"
        /\ db[j].progress = 50
        /\ db[j].speed # NULLTEXT
        /\ db[j].eta # NULLTEXT

\* C19: a pause, resume or cancel step for a job whose registered process
\* has ended, taken before the worker releases the entry (no worker moves
\* in the step), leaves the stored status of the job as it was.
C19_SignalsAfterExitAreNoOps ==
    [][\A j \in DOMAIN active_downloads \cap Surviving :
          (/\ process_of(j).state \in Ended
           /\ workers' = workers
           /\ active_downloads' = active_downloads)
              => db'[j].status = db[j].status]_vars

\* C20: the stored progress of every job is within [0, 100] (in tenths of a
\* percent: 0..1000), whatever percentage the output lines carry.
C20_ProgressWithinBounds ==
    \A j \in Existing : db[j].progress >= 0 /\ db[j].progress <= 1000

\* The text "1.21MiB/s" and the text "00:12".
Speed121MiB == <<"1", ".", "2", "1", "M", "i", "B", "/", "s">>
Eta0012 == <<"0", "0", ":", "1", "2">>

\* C21: the line '[download]  45.2% of 10.00MiB at 1.21MiB/s ETA 00:12', as
\* the worker reads it, parses to percentage 45.2, speed '1.21MiB/s' and eta
\* '00:12', and these are the values parse_progress merges into the
\* progress, speed and eta of the job and of no other job.
C21_ExampleLineParses ==
    /\ LineKwargs[Line452] = [progress |-> 452, speed |-> Speed121MiB, eta |-> Eta0012]
    /\ \A j \in Existing :
          LET table == parse_progress(db, j, LineKwargs[Line452])
          IN  /\ table[j].progress = 452
              /\ table[j].speed = Speed121MiB
              /\ table[j].eta = Eta0012
              /\ table[j].status = db[j].status
              /\ Others(table, j) = Others(db, j)

\* A worker reads the output of its running process and its job holds the
\* three values of the line.
C21_Witness ==
    \E j \in DOMAIN active_downloads \cap Existing :
        /\ workers[active_downloads[j]].pc = "readline"
        /\ process_of(j).state = "running"
        /\ db[j].progress = 452
        /\ db[j].speed = Speed121MiB
        /\ db[j].eta = Eta0012

\* s holds a numeric value immediately followed by '%': a '%' that comes
\* right after a digit, or after a '.' that comes right after a digit.
HasPercentToken(s) ==
    \E k \in 2..Len(s) :
        /\ s[k] = "%"
        /\ \/ s[k - 1] \in Digits
           \/ k > 2 /\ s[k - 1] = "." /\ s[k - 2] \in Digits

\* The lines without such a value.
ShapelessLines == {l \in ParseLines : ~HasPercentToken(strip(l))}

\* C22: a line that is no progress report, 'WARNING: some unrelated
\* message' among them, yields no event: parse_progress leaves the table as
\* it is, and the step in which a worker reads such a line changes neither
\* the store nor the registries, and leaves the worker reading.
C22_OtherLinesYieldNothing ==
    /\ [](/\ LineWarning \in ShapelessLines
          /\ \A l \in ShapelessLines :
                /\ LineKwargs[l] = NoUpdate
                /\ \A j \in JobIds : parse_progress(db, j, LineKwargs[l]) = db)
    /\ [][\A w \in Threads : \A l \in ShapelessLines :
            WorkerReadsLine(w, l) => UNCHANGED manager /\ workers'[w].pc = "readline"]_vars

\* A worker that has stored a progress report reads on from its running
\* process; the next line may be any of the lines that are no report.
C22_Witness ==
    /\ Cardinality(ShapelessLines) >= 3
    /\ \E j \in DOMAIN active_downloads \cap Existing :
          /\ workers[active_downloads[j]].pc = "readline"
          /\ process_of(j).state = "running"
          /\ db[j].progress = 75
          /\ db[j].status = "downloading"

\* The six statuses, and the filters get_downloads is called with: none, or
\* a status.
Statuses == {"pending", "downloading", "paused", "completed", "failed", "cancelled"}
Filters == Statuses \cup {NULL}

\* C23: get_downloads returns each job that has a row at most once, the
\* newer before the older; without a filter every job, with a filter
\* exactly the jobs whose stored status is the filter, in the order they
\* have in the unfiltered list; each job as it is stored.
C23_ListNewestFirstAndFiltered ==
    \A status \in Filters :
        LET downloads == get_downloads(db, status)
            all == get_downloads(db, NULL)
            Pos(j) == CHOOSE i \in DOMAIN all : all[i].id = j
        IN  /\ {downloads[i].id : i \in DOMAIN downloads}
                  = {j \in Existing : status = NULL \/ db[j].status = status}
            /\ \A i, k \in DOMAIN downloads :
                  i < k => /\ downloads[i].id # downloads[k].id
                           /\ downloads[i].created_at > downloads[k].created_at
                           /\ Pos(downloads[i].id) < Pos(downloads[k].id)
            /\ \A i \in DOMAIN downloads : \A f \in DOMAIN db[downloads[i].id] :
                  downloads[i][f] = db[downloads[i].id][f]

\* Two jobs with different statuses: the list without a filter has two
\* entries, the list of the 'paused' jobs has one.
C23_Witness ==
    /\ Len(get_downloads(db, NULL)) = 2
    /\ Len(get_downloads(db, "paused")) = 1
    /\ Len(get_downloads(db, "completed")) = 1

\* The jobs StartDownload can be called for: 'pending', no worker yet.
Startable ==
    {j \in Existing : db[j].status = "pending" /\ \A w \in Threads : workers[w].download_id # j}

\* C24: start_download of a pending job is refused only when max_concurrent
\* jobs are stored as 'downloading' (stated for the steps in which every
\* registered job has its row).
C24_RefusedOnlyWhenDownloadingFull ==
    [][(success' = "False" /\ Startable # {} /\ DOMAIN active_downloads \subseteq Existing)
          => Cardinality(Downloading) >= max_concurrent]_vars

\* C24, amended: start_download is refused exactly when active_downloads
\* holds max_concurrent entries or more, whatever the stored statuses of the
\* jobs; otherwise it creates a worker.
C24_RefusedWhenRegistryFull ==
    [][/\ success' = "False" => Cardinality(DOMAIN active_downloads) >= max_concurrent
       /\ success' = "True" => /\ Cardinality(DOMAIN active_downloads) < max_concurrent
                               /\ Len(workers') = Len(workers) + 1]_vars

\* The start of a pending job has just been refused while no job is
\* 'downloading': a paused job holds the entry.
C24_Witness ==
    /\ success = "False"
    /\ Startable # {}
    /\ Downloading = {}
    /\ \E j \in DOMAIN active_downloads \cap Existing :
          db[j].status = "paused" /\ process_of(j).state = "stopped"

RECURSIVE BackRun(_, _, _)
BackRun(s, i, S) ==
    IF i >= 1 /\ s[i] \in S THEN BackRun(s, i - 1, S) ELSE i + 1

\* The '%' signs of s that end a numeric value.
PercentSigns(s) ==
    {k \in 2..Len(s) :
        /\ s[k] = "%"
        /\ \/ s[k - 1] \in Digits
           \/ k > 2 /\ s[k - 1] = "." /\ s[k - 2] \in Digits}

\* The numeric value before the first of them, read backwards from the '%':
\* digits, or digits '.', or digits '.' digits.
FirstPercentToken(s) ==
    LET k == Least(PercentSigns(s))
        a == BackRun(s, k - 1, Digits)
    IN  IF a = k THEN SubSeq(s, BackRun(s, k - 2, Digits), k - 1)
        ELSE IF a > 2 /\ s[a - 1] = "." /\ s[a - 2] \in Digits
             THEN SubSeq(s, BackRun(s, a - 2, Digits), k - 1)
        ELSE SubSeq(s, a, k - 1)

\* The value of a numeric token, in tenths.
Tenths(t) ==
    LET dots == {i \in DOMAIN t : t[i] = "."}
    IN  IF dots = {} THEN 10 * DigitsValue(t)
        ELSE LET d == Least(dots)
             IN  10 * DigitsValue(SubSeq(t, 1, d - 1))
                    + (IF d < Len(t) THEN DigitVal(t[d + 1]) ELSE 0)

Marker == <<"[", "d", "o", "w", "n", "l", "o", "a", "d", "]">>

\* Worker w reads the output of its running process.
Reading(w) == workers[w].pc = "readline" /\ workers[w].process.state = "running"

\* C26: a line a worker reads yields a progress event exactly when it holds a numeric
\* value immediately followed by '%', whatever else it holds, and the
\* percentage of the event is the first such value.
C26_EventIffPercentToken ==
    \A w \in Threads : \A l \in ParseLines :
        Reading(w) =>
            /\ LineKwargs[l] # NoUpdate <=> HasPercentToken(strip(l))
            /\ LineKwargs[l] # NoUpdate
                  => LineKwargs[l].progress = Tenths(FirstPercentToken(strip(l)))

\* C26, amended: a line yields a progress event exactly when it holds
\* '[download]' and a numeric value immediately followed by '%'; the
\* percentage of the event, which parse_progress stores, is the first such
\* value; any other line leaves the table as it is.
C26_EventIffMarkerAndPercentToken ==
    \A l \in ParseLines :
        /\ LineKwargs[l] # NoUpdate
              <=> (Contains(strip(l), Marker) /\ HasPercentToken(strip(l)))
        /\ \A j \in Existing :
              IF LineKwargs[l] # NoUpdate
              THEN parse_progress(db, j, LineKwargs[l])[j].progress
                       = Tenths(FirstPercentToken(strip(l)))
              ELSE parse_progress(db, j, LineKwargs[l]) = db

\* A job holds the first percentage, 7.5, of the line that carries two, and
\* the empty speed and eta of that line.
C26_Witness ==
    \E j \in DOMAIN active_downloads \cap Existing :
        /\ db[j].progress = 75
        /\ db[j].speed = <<>>
        /\ db[j].eta = <<>>
        /\ LineKwargs[LineTwoPercents].progress = 75
        /\ LineKwargs[LineNoMarker] = NoUpdate

\* The places of s at which 'B/s' ends a speed: a numeric value, then
\* nothing or 'Ki', 'Mi' or 'Gi', then 'B/s'.  UnitStart is where the unit
\* begins.
UnitStart(s, u) ==
    IF u > 2 /\ s[u - 1] = "i" /\ s[u - 2] \in {"K", "M", "G"} THEN u - 2 ELSE u

SpeedUnits(s) ==
    {u \in 2..Len(s) :
        /\ LitAt(s, u, <<"B", "/", "s">>)
        /\ BackRun(s, UnitStart(s, u) - 1, Digits \cup {"."}) < UnitStart(s, u)}

\* The first such speed of s, the empty text when there is none.
FirstSpeedToken(s) ==
    IF SpeedUnits(s) = {} THEN <<>>
    ELSE LET u == Least(SpeedUnits(s))
         IN  SubSeq(s, BackRun(s, UnitStart(s, u) - 1, Digits \cup {"."}), u + 2)

\* C27: for every line a worker reads that yields an event, the speed of
\* the event is the first numeric value followed by B/s, KiB/s, MiB/s or
\* GiB/s, with 'at ' before it or not, and is empty when the line has none.
C27_SpeedIsFirstValueWithUnit ==
    \A w \in Threads : \A l \in ParseLines :
        (Reading(w) /\ LineKwargs[l] # NoUpdate)
            => LineKwargs[l].speed = FirstSpeedToken(strip(l))

\* C28: a step of pause_download, resume_download or cancel_download for an
\* id that has no entry in active_downloads changes neither the table nor
\* the registries, and no process (no signal is sent).
C28_UnregisteredSignalsChangeNothing ==
    [][\A id \in JobIds :
          (/\ id \notin DOMAIN active_downloads
           /\ pause_download(id) \/ resume_download(id) \/ cancel_download(id))
              => /\ db' = db
                 /\ active_downloads' = active_downloads
                 /\ download_threads' = download_threads
                 /\ workers' = workers]_vars

\* With nothing in active_downloads: a job that was never started, a job
\* whose worker has finished and released its entry, and the start of a
\* job just admitted, so that a call for either id now is a step.
C28_Witness ==
    /\ DOMAIN active_downloads = {}
    /\ success = "True"
    /\ \E j \in Existing :
          /\ db[j].status = "completed"
          /\ WorkersOf(j) = {}
          /\ \E w \in Threads : workers[w].download_id = j /\ workers[w].pc = "done"
    /\ \E j \in Existing :
          /\ db[j].status = "pending"
          /\ \E w \in Threads : workers[w].download_id = j
                                  /\ workers[w].pc = "update_downloading"

\* Job j has left the active set for good: no worker of it is left, it is in
\* neither registry, and its stored status is final.
Settled(j) ==
    /\ WorkersOf(j) = {}
    /\ j \notin Registered
    /\ j \in Existing => db[j].status \in {"completed", "failed", "cancelled"}

\* A process of a worker of job j is stopped.
Suspended(j) == \E w \in WorkersOf(j) : workers[w].process.state = "stopped"

\* C29: under the fair scheduler, a job that has a worker comes to be
\* settled: its workers have exited, it is in neither registry, and it is
\* stored as 'completed', 'failed' or 'cancelled'; unless its process is
\* stopped.
C29_AdmittedJobEventuallySettled ==
    \A j \in JobIds : (WorkersOf(j) # {}) ~> (Settled(j) \/ Suspended(j))

\* terminate() was called on the process registered for job j: the process
\* was killed, or the SIGTERM is pending on it.
CancelSent(j) ==
    /\ j \in DOMAIN active_downloads
    /\ process_of(j).state = "killed" \/ process_of(j).sigterm

\* C30: once cancel_download has terminated the process registered for a
\* job, running or stopped, the job's entry in active_downloads is
\* eventually removed.
C30_CancelEventuallyFreesSlot ==
    \A j \in JobIds : CancelSent(j) ~> (j \notin DOMAIN active_downloads)
====
